---- MODULE Spec2Model ----
(***************************************************************************)
(* Request handlers of the math-problem generator (Next.js route handlers  *)
(* over a Supabase/Postgres datastore) as a state machine.                 *)
(*                                                                         *)
(* State: the five tables, the wall clock, the browser's cookie jar and    *)
(* the requests in flight.  A request in flight is a record: its position  *)
(* in the handler (pc) and the handler's local variables.  Every `await`   *)
(* of a handler that reaches the datastore is a separate step, so requests *)
(* interleave exactly where the code yields.  resp is the request that was *)
(* answered last.                                                          *)
(*                                                                         *)
(* Every call to the datastore or to the generation service may fail.  A   *)
(* failed attempt of a retry loop writes nothing, so a loop is one step:   *)
(* the attempt that succeeded, or the error left after the last attempt.   *)
(*                                                                         *)
(* Columns that no handler modelled here reads back (row ids, created_at,  *)
(* last_updated, problem_text, hint_text, feedback_text) are not part of   *)
(* the tables.                                                             *)
(***************************************************************************)
EXTENDS Integers, Sequences, FiniteSets, TLC

\* ---------------------------------------------------------------- bounds
\* number of requests that may be in flight at the same time
NumSlots == 2
\* the longest generated text, in tokens
MaxLen == 5
\* the numbers formatted are below this
MaxNumber == 3
\* number of problems that the page generates in one behaviour
MaxProblems == 2
\* number of requests started in one behaviour
MaxRequests == 2
\* how far above MAX_LIMIT the limit parameter of GET history ranges
MaxOver == 2

\* ------------------------------------------------------ program constants
POINTS_CORRECT == 10
POINTS_INCORRECT == 0 - 2
\* the literal 5 of the max-hints guard
MaxHints == 5
penalties == <<0, 2, 3, 4, 5>>
\* retry policies of the routes
MAX_RETRIES == 2
GEN_MAX_RETRIES == 2
\* the retries that requestHint and submitAnswer pass to fetchWithRetry
retries == 2
FEEDBACK_MAX_RETRIES == 2
\* GET history
DEFAULT_LIMIT == 20
MAX_LIMIT == 100
RETRY_BASE_DELAY == 200
RETRY_DELAY_MS == 200
RETRY_BASE_MS == 180

\* ------------------------------------------------------------ value sets
\* "s1" is a stored Problem Session; "s0" is a well-formed uuid that
\* matches no row.
SessionIds == {"s1", "s0"}
\* correct_answer of the stored session, and the answers a user may send
CorrectAnswer == 7
Answers == {7, 8}
\* client ids: 0 is the id held in the browser's mpg_id cookie when it has
\* one from an earlier visit; n > 0 is the id minted by the n-th request
ClientIds == 0..MaxRequests
NoCookie == 0 - 1
\* contents of a steps array: SeedSteps is the array stored by
\* generate-problem; n > 0 is the array generated for the n-th request
NoSteps == 0 - 1
SeedSteps == 0

Max(a, b) == IF a >= b THEN a ELSE b

\* A number as the model writes it: its value in thousandths and the
\* number of digits after the decimal point (0: no decimal point).
Lit(value, decimals) == [value |-> value, decimals |-> decimals]
\* no digits where the number should be
NoLit == Lit(0, 0 - 1)

\* The text of a step: what stands before the label, the label, the
\* number after it, and what follows the number.
Step(prefix, label, num, tail) ==
  [prefix |-> prefix, label |-> label, num |-> num, tail |-> tail]
NoStep == Step("", "none", NoLit, "")

\* last steps the model has been seen to produce
FinalSteps ==
  { Step("", "Final answer:", Lit(15000, 0), ""),
    Step("", "final  answer :", Lit(12500, 2), ""),
    Step("", "Final answer:", Lit(15500, 1), ""),
    Step("", "Final answer:", Lit(15000, 0), " apples"),
    Step("So the ", "final answer:", Lit(15000, 0), ""),
    Step("", "Answer:", Lit(15000, 0), "") }

\* the labels that /final\s*answer\s*:/i matches
FinalLabels == {"Final answer:", "final  answer :", "final answer:"}
Min(a, b) == IF a <= b THEN a ELSE b

\* ------------------------------------------------------------- variables
VARIABLES
  sessions,     \* math_problem_sessions: id -> [exists, correct_answer, revealed_at]
  submissions,  \* math_problem_submissions: rows in insertion order
  hints,        \* math_problem_hints: session_id of each row, in insertion order
  solutions,    \* math_problem_solutions: rows [session_id, steps], in insertion order
  scores,       \* score_summaries: client_id -> row
  now,          \* wall clock (new Date())
  jar,          \* the browser's mpg_id cookie, NoCookie when it has none
  req,          \* the requests in flight
  resp,         \* the request answered last, with its response
  started,      \* number of requests started so far
  call,         \* one call of a retry wrapper: loop index, errors, waits
  entry,        \* one request at the entry of its route: body, validation
  gen,          \* one generate-problem request: payload, rows it inserted
  client,       \* the browser's fetchWithRetry around one user action
  pure,         \* one application of a pure function: argument and result
  page          \* the state of the page in the browser

\* the state of the submit, reveal and hint handlers
handlers ==
  <<sessions, submissions, hints, solutions, scores, now, jar, req, resp, started>>

vars == <<handlers, call, entry, gen, client, pure, page>>

\* ------------------------------------------------------------- datastore
NoScore ==
  [present |-> FALSE, total_attempts |-> 0, correct_count |-> 0,
   current_streak |-> 0, best_streak |-> 0, points |-> 0]

\* existingScore?.f ?? 0
ScoreField(s, f) == IF s.present THEN s[f] ELSE 0

CorrectRows(sid) ==
  {i \in 1..Len(submissions) :
     submissions[i].session_id = sid /\ submissions[i].is_correct}

HintCount(sid) == Cardinality({i \in 1..Len(hints) : hints[i] = sid})

SolutionRows(sid) == {i \in 1..Len(solutions) : solutions[i].session_id = sid}

\* .eq('session_id', sid).maybeSingle() on math_problem_solutions
StoredSteps(sid) ==
  IF SolutionRows(sid) = {} THEN NoSteps
  ELSE solutions[CHOOSE i \in SolutionRows(sid) : TRUE].steps

\* faulty variant: the table has no unique index
SubmissionIsDuplicate_noindex(row) == FALSE

\* Unique index of math_problem_submissions: one is_correct row per session.
SubmissionIsDuplicate(row) == row.is_correct /\ CorrectRows(row.session_id) # {}

\* Unique index of math_problem_solutions: one row per session_id.
SolutionIsDuplicate(sid) == SolutionRows(sid) # {}

\* ------------------------------------------------------ requests in flight
IdleReq ==
  [kind |-> "none", pc |-> "idle",
   \* request
   session_id |-> "s0", user_answer |-> 0, cookie |-> NoCookie, ordinal |-> 0,
   \* locals of the handlers
   revealed_at |-> 0, correct_answer |-> 0, existing |-> NoSteps,
   got_session |-> FALSE, got_existing |-> FALSE,
   existingCount |-> 0, existingScore |-> NoScore, is_correct |-> FALSE,
   sub_is_correct |-> FALSE,
   client_id |-> 0, feedback_text |-> "none", steps |-> NoSteps,
   saved |-> NoSteps, last |-> NoStep,
   \* response
   status |-> 0, error |-> "none", score |-> NoScore, set_cookie |-> FALSE,
   hint_count |-> 0, deduction_applied |-> 0, res_steps |-> NoSteps,
   res_is_correct |-> FALSE,
   \* bookkeeping for the properties: what was true when the request
   \* arrived and what the request has done
   solved_at_start |-> FALSE, revealed_at_start |-> FALSE,
   hints_at_start |-> 0, steps_at_start |-> NoSteps,
   wrote_sub |-> FALSE, wrote_score |-> FALSE, wrote_hint |-> FALSE,
   wrote_sol |-> FALSE, wrote_revealed |-> FALSE, gen_calls |-> 0,
   faulted |-> FALSE, hit_dup |-> FALSE]

\* A new request arrives while fewer than NumSlots are in flight.
Arrive(kind, pc, sid, ans, cookie) ==
  /\ Cardinality(req) < NumSlots
  /\ started < MaxRequests
  /\ started' = started + 1
  /\ resp' = resp
  /\ UNCHANGED <<call, entry, gen>>
  /\ req' = req \cup
       {[IdleReq EXCEPT !.kind = kind, !.pc = pc, !.session_id = sid,
           !.user_answer = ans, !.cookie = cookie,
           !.ordinal = started + 1,
           !.solved_at_start = (CorrectRows(sid) # {}),
           !.revealed_at_start = (sessions[sid].revealed_at # 0),
           !.hints_at_start = HintCount(sid),
           !.steps_at_start = StoredSteps(sid)]}

\* NextResponse.json({error}, {status})
Respond(rec, status, error) ==
  [rec EXCEPT !.pc = "done", !.status = status, !.error = error]

\* The handler of request rec continues as next.  When next is a response
\* the request leaves and is kept in resp.
Put(rec, next) ==
  /\ IF next.pc = "done"
       THEN req' = req \ {rec} /\ resp' = next
     ELSE req' = (req \ {rec}) \cup {next} /\ resp' = resp
  /\ UNCHANGED <<call, entry, gen, client, pure, page>>

\* getOrCreateClientId(): the cookie's value, else a fresh random id
getOrCreateClientId(rec) ==
  IF rec.cookie # NoCookie THEN rec.cookie ELSE rec.ordinal

\* res.cookies.set('mpg_id', client_id) when the request carried no cookie;
\* the browser stores it.
JarAfter(rec) == IF rec.cookie = NoCookie THEN rec.client_id ELSE jar

\* ----------------------------------------------------- retry wrapper call
\* no error: lastErr = null
NoErr == [attempt |-> 0, kind |-> "none"]

\* no wrapper has been called
NoCall ==
  [wrapper |-> "none", pc |-> "idle", i |-> 0, lastErr |-> NoErr,
   outcomes |-> << >>, waits |-> << >>, inflight |-> {},
   thrown |-> NoErr, value |-> "none"]

\* ------------------------------------------------------- entry of a route
\* no request has arrived
NoEntry ==
  [endpoint |-> "none", pc |-> "idle", apiKey |-> FALSE, body |-> "none",
   thrown |-> "none", status |-> 0, touched |-> FALSE]

\* ------------------------------------------------- generate-problem request
\* Numbers are in thousandths.  Infinity is the number that digits beyond
\* the range of a double convert to; null is the absent number.
Infinity == 1000000000
null == 0 - Infinity

\* no row

\* no generate-problem request has arrived
NoGen ==
  [pc |-> "idle",
   \* the payload of the model: steps (their number and the last one) and
   \* final_answer
   nsteps |-> 0, last |-> NoStep, final_answer |-> null,
   \* locals of the handler
   parsedAnswer |-> null, formatted |-> NoLit, steps_n |-> 0, steps_last |-> NoStep,
   \* the rows the request has inserted, under the id the insert drew
   sessionRow |-> [present |-> FALSE, correct_answer |-> null],
   solutionRow |-> [present |-> FALSE, nsteps |-> 0, last |-> NoStep],
   \* response
   status |-> 0, error |-> "none"]

\* ------------------------------------------------------------ the browser
\* fetchWithRetry has not been called
NoClient ==
  [pc |-> "idle", kind |-> "none", user_answer |-> 0, attempt |-> 0, sent |-> 0,
   \* the tables when the user acted
   hints_before |-> 0, subs_before |-> 0, scores_before |-> << >>]

\* ---------------------------------------------------------------- the page
\* The state of Home and of ProblemDisplay when the page has loaded with
\* nothing stored: no problem and no session (sessionId 0).  locked is the
\* set of sessions whose solution this page has revealed or whose correct
\* answer it has seen accepted.
NoPage ==
  [sessionId |-> 0, isSubmitDisabled |-> "null", isCorrect |-> "null",
   userAnswer |-> FALSE, isLoadingSubmit |-> FALSE, aborted |-> FALSE,
   isLoadingSettingsPanel |-> FALSE, isStepsLoading |-> FALSE,
   showSteps |-> FALSE, locked |-> {}]

\* ----------------------------------------------------------- pure functions
\* no function has been applied
NoPure ==
  [pc |-> "idle", text |-> << >>, snippet |-> << >>, snippet_reveal |-> << >>,
   n |-> 0, formatted |-> NoLit,
   raw |-> [kind |-> "absent", value |-> 0], limit |-> 0]

\* ------------------------------------------------------------------ Init
\* Score rows a client can have from the sessions of earlier visits: after
\* one incorrect answer; after correct, correct, correct, incorrect, correct.
PriorScores ==
  { [present |-> TRUE, total_attempts |-> 1, correct_count |-> 0,
     current_streak |-> 0, best_streak |-> 0, points |-> 0],
    [present |-> TRUE, total_attempts |-> 5, correct_count |-> 4,
     current_streak |-> 1, best_streak |-> 3, points |-> 38] }

\* generate-problem has stored session "s1"
InitStore ==
  /\ sessions = [sid \in SessionIds |->
       [exists |-> (sid = "s1"), correct_answer |-> CorrectAnswer, revealed_at |-> 0]]
  /\ now = 1
  /\ req = {}
  /\ resp = IdleReq
  /\ started = 0
  /\ call = NoCall
  /\ entry = NoEntry
  /\ gen = NoGen
  /\ client = NoClient
  /\ page = NoPage

\* the same, and no pure function under study
InitTables == InitStore /\ pure = NoPure

\* nobody has answered "s1" correctly
InitUnsolved == submissions = << >>

\* a first-time visitor: no cookie, no score row
InitFresh ==
  /\ jar = NoCookie
  /\ scores = [c \in ClientIds |-> NoScore]

\* a returning visitor: cookie 0 and the score row of earlier sessions
InitReturning ==
  /\ jar = 0
  /\ \E p \in PriorScores : scores = [c \in ClientIds |-> IF c = 0 THEN p ELSE NoScore]

\* generate-problem stored the Solution of "s1"
InitWithSolution == solutions = << [session_id |-> "s1", steps |-> SeedSteps] >>

InitSubmit ==
  /\ InitTables /\ InitUnsolved /\ InitWithSolution /\ hints = << >>
  /\ InitFresh \/ InitReturning

InitSubmitReveal ==
  /\ InitTables /\ InitWithSolution /\ hints = << >>
  /\ \/ InitUnsolved
     \/ submissions = << [session_id |-> "s1", user_answer |-> CorrectAnswer,
                           is_correct |-> TRUE] >>
  /\ InitFresh

InitReveal ==
  /\ InitTables /\ InitUnsolved /\ InitFresh /\ hints = << >>
  /\ InitWithSolution \/ solutions = << >>

\* the hints of "s1" when four have been given earlier
EarlierHints == <<"s1", "s1", "s1", "s1">>

InitSubmitHint ==
  /\ InitTables /\ InitUnsolved /\ InitWithSolution
  /\ hints = EarlierHints
  /\ InitFresh \/ InitReturning

InitHint ==
  /\ InitTables /\ InitUnsolved /\ InitWithSolution
  /\ hints \in {<< >>, EarlierHints}
  /\ InitFresh \/ InitReturning

\* --------------------------------------------------------- submit-answer
\* POST /api/math-problem/submit

\* faulty variant: best_streak follows the current streak
NextScoreOnSubmit_beststreak(existingScore, is_correct) ==
  LET current_streak == IF is_correct THEN ScoreField(existingScore, "current_streak") + 1 ELSE 0
  IN [present |-> TRUE,
      total_attempts |-> ScoreField(existingScore, "total_attempts") + 1,
      correct_count |-> ScoreField(existingScore, "correct_count") + (IF is_correct THEN 1 ELSE 0),
      current_streak |-> current_streak, best_streak |-> current_streak,
      points |-> Max(0, ScoreField(existingScore, "points")
                          + (IF is_correct THEN POINTS_CORRECT ELSE POINTS_INCORRECT))]

\* faulty variant: points are not clamped at zero
NextScoreOnSubmit_noclamp(existingScore, is_correct) ==
  LET current_streak == IF is_correct THEN ScoreField(existingScore, "current_streak") + 1 ELSE 0
  IN [present |-> TRUE,
      total_attempts |-> ScoreField(existingScore, "total_attempts") + 1,
      correct_count |-> ScoreField(existingScore, "correct_count") + (IF is_correct THEN 1 ELSE 0),
      current_streak |-> current_streak,
      best_streak |-> Max(ScoreField(existingScore, "best_streak"), current_streak),
      points |-> ScoreField(existingScore, "points")
                   + (IF is_correct THEN POINTS_CORRECT ELSE POINTS_INCORRECT)]

\* faulty variant: best_streak is copied from the row read
NextScoreOnSubmit_nobest(existingScore, is_correct) ==
  [present |-> TRUE,
   total_attempts |-> ScoreField(existingScore, "total_attempts") + 1,
   correct_count |-> ScoreField(existingScore, "correct_count") + (IF is_correct THEN 1 ELSE 0),
   current_streak |-> IF is_correct THEN ScoreField(existingScore, "current_streak") + 1 ELSE 0,
   best_streak |-> ScoreField(existingScore, "best_streak"),
   points |-> Max(0, ScoreField(existingScore, "points")
                       + (IF is_correct THEN POINTS_CORRECT ELSE POINTS_INCORRECT))]

\* total_attempts .. points as computed before the upsert
NextScoreOnSubmit(existingScore, is_correct) ==
  LET total_attempts == ScoreField(existingScore, "total_attempts") + 1
      correct_count == ScoreField(existingScore, "correct_count") + (IF is_correct THEN 1 ELSE 0)
      current_streak == IF is_correct THEN ScoreField(existingScore, "current_streak") + 1 ELSE 0
      best_streak == Max(ScoreField(existingScore, "best_streak"), current_streak)
      points == Max(0, ScoreField(existingScore, "points")
                         + (IF is_correct THEN POINTS_CORRECT ELSE POINTS_INCORRECT))
  IN [present |-> TRUE, total_attempts |-> total_attempts, correct_count |-> correct_count,
      current_streak |-> current_streak, best_streak |-> best_streak, points |-> points]

\* faulty variant: the revealed guard is missing
sessionRevealed_missing(session) == FALSE

\* if (session.revealed_at)
sessionRevealed(session) == session.revealed_at # 0

\* faulty variant: the solved guard is missing
solvedRow_missing(sid) == FALSE

\* the select of a submission of the session with is_correct = true
solvedRow(sid) == CorrectRows(sid) # {}

\* the request arrives; the body passed Body.parse
SubmitStart ==
  /\ \E sid \in SessionIds, ans \in Answers :
        Arrive("submit", "s_session", sid, ans, jar)
  /\ UNCHANGED <<sessions, submissions, hints, solutions, scores, now, jar, client, pure, page>>

\* variant: the solved guard is evaluated before the revealed guard
SubmitFetchSession_solvedfirst(rec) ==
  LET session == sessions[rec.session_id]
  IN /\ rec.pc = "s_session"
     /\ \E ok \in BOOLEAN :
          Put(rec,
            IF ~ok \/ ~session.exists
              THEN Respond([rec EXCEPT !.faulted = ~ok], 404, "Session not found")
            ELSE IF solvedRow(rec.session_id)
              THEN Respond([rec EXCEPT !.revealed_at = session.revealed_at],
                           409, "already_solved")
            ELSE IF sessionRevealed(session)
              THEN Respond([rec EXCEPT !.revealed_at = session.revealed_at],
                           409, "solution_revealed")
            ELSE [rec EXCEPT !.pc = "s_solved",
                             !.revealed_at = session.revealed_at,
                             !.correct_answer = session.correct_answer])
     /\ UNCHANGED <<sessions, submissions, hints, solutions, scores, now, jar, started>>

\* select the session; 404 when there is none; 409 when it is revealed
SubmitFetchSession(rec) ==
  LET session == sessions[rec.session_id]
  IN /\ rec.pc = "s_session"
     /\ \E ok \in BOOLEAN :
          Put(rec,
            IF ~ok \/ ~session.exists
              THEN Respond([rec EXCEPT !.faulted = ~ok], 404, "Session not found")
            ELSE IF sessionRevealed(session)
              THEN Respond([rec EXCEPT !.revealed_at = session.revealed_at],
                           409, "solution_revealed")
            ELSE [rec EXCEPT !.pc = "s_solved",
                             !.revealed_at = session.revealed_at,
                             !.correct_answer = session.correct_answer])
     /\ UNCHANGED <<sessions, submissions, hints, solutions, scores, now, jar, started>>

\* variant: an answer at or above the correct one counts as correct
isCorrect_atleast(userAnswer, correctAnswer) == userAnswer >= correctAnswer

\* is_correct: strict equality of the two numbers
isCorrect(userAnswer, correctAnswer) == userAnswer = correctAnswer

\* select a correct submission of the session; 409 when there is one
SubmitCheckSolved(rec) ==
  /\ rec.pc = "s_solved"
  /\ \E ok \in BOOLEAN :
       Put(rec,
         IF ~ok THEN Respond([rec EXCEPT !.faulted = TRUE], 500, "solvedErr")
         ELSE IF solvedRow(rec.session_id) THEN Respond(rec, 409, "already_solved")
         ELSE [rec EXCEPT !.pc = "s_score",
                          !.is_correct = isCorrect(rec.user_answer, rec.correct_answer),
                          !.client_id = getOrCreateClientId(rec)])
  /\ UNCHANGED <<sessions, submissions, hints, solutions, scores, now, jar, started>>

\* variant: one fixed message whatever isCorrect
generateFeedback_onemessage(rec) ==
  {[rec EXCEPT !.gen_calls = 1, !.feedback_text = "generated"],
   [rec EXCEPT !.gen_calls = 1, !.faulted = TRUE, !.feedback_text = "Well done"]}

\* generateFeedback: the text of the first attempt that returns text, or
\* the fixed message after the last attempt
generateFeedback(rec) ==
  {[rec EXCEPT !.gen_calls = 1, !.feedback_text = "generated"],
   [rec EXCEPT !.gen_calls = 1, !.faulted = TRUE,
               !.feedback_text = IF rec.is_correct THEN "Well done"
                                 ELSE "Keep trying"]}

\* Promise.all of generateFeedback and the select of the client's score
\* row.  A failed select yields data = null, the same as no row.
SubmitReadScore(rec) ==
  /\ rec.pc = "s_score"
  /\ \E ok \in BOOLEAN, called \in generateFeedback(rec) :
       Put(rec,
         [called EXCEPT !.pc = "s_insert",
                        !.faulted = (called.faulted \/ ~ok),
                        !.existingScore = IF ok THEN scores[rec.client_id] ELSE NoScore])
  /\ UNCHANGED <<sessions, submissions, hints, solutions, scores, now, jar, started>>

\* insert the submission; a unique violation is answered 409
SubmitInsert(rec) ==
  LET row == [session_id |-> rec.session_id, user_answer |-> rec.user_answer,
              is_correct |-> rec.is_correct]
  IN /\ rec.pc = "s_insert"
     /\ \E ok \in BOOLEAN :
          IF ~ok
            THEN /\ Put(rec, Respond([rec EXCEPT !.faulted = TRUE], 500, "subErr"))
                 /\ UNCHANGED submissions
          ELSE IF SubmissionIsDuplicate(row)
            THEN /\ Put(rec, Respond([rec EXCEPT !.hit_dup = TRUE], 409, "already_solved"))
                 /\ UNCHANGED submissions
          ELSE /\ submissions' = Append(submissions, row)
               /\ Put(rec, [rec EXCEPT !.pc = "s_upsert", !.wrote_sub = TRUE,
                                        !.sub_is_correct = row.is_correct])
     /\ UNCHANGED <<sessions, hints, solutions, scores, now, jar, started>>

\* upsert the score row computed from existingScore and answer 200
SubmitUpsertScore(rec) ==
  LET next == NextScoreOnSubmit(rec.existingScore, rec.is_correct)
  IN /\ rec.pc = "s_upsert"
     /\ \E ok \in BOOLEAN :
          IF ~ok
            THEN /\ Put(rec, Respond([rec EXCEPT !.faulted = TRUE], 500, "scoreErr"))
                 /\ UNCHANGED <<scores, jar>>
          ELSE /\ scores' = [scores EXCEPT ![rec.client_id] = next]
               /\ jar' = JarAfter(rec)
               /\ Put(rec,
                    Respond([rec EXCEPT !.wrote_score = TRUE, !.score = next,
                                        !.res_is_correct = rec.sub_is_correct,
                                        !.set_cookie = (rec.cookie = NoCookie)],
                            200, "none"))
     /\ UNCHANGED <<sessions, submissions, hints, solutions, now, started>>

\* ------------------------------------------------------- reveal-solution
\* POST /api/math-problem/solution

RevealStart ==
  /\ \E sid \in SessionIds : Arrive("reveal", "r_fetch", sid, 0, jar)
  /\ UNCHANGED <<sessions, submissions, hints, solutions, scores, now, jar, client, pure, page>>

\* faulty variant: the existing Solution is not looked at
AfterFetch_regenerate(rec) ==
  IF ~(rec.got_session /\ rec.got_existing) THEN rec
  ELSE [rec EXCEPT !.pc = "r_generate"]

\* what follows Promise.all([fetchSession, fetchExistingSolution])
AfterFetch(rec) ==
  IF ~(rec.got_session /\ rec.got_existing) THEN rec
  ELSE IF rec.existing # NoSteps
    THEN [rec EXCEPT !.pc = "r_mark"]
  ELSE [rec EXCEPT !.pc = "r_generate"]

\* fetchSession: .single() reports an error when no row matches; the error
\* left after the last attempt is thrown and the handler's catch answers
\* 500.
fetchSession(rec) ==
  LET session == sessions[rec.session_id]
  IN /\ rec.pc = "r_fetch" /\ ~rec.got_session
     /\ \E ok \in BOOLEAN :
          Put(rec,
            IF ok /\ session.exists
              THEN AfterFetch([rec EXCEPT !.got_session = TRUE,
                                          !.revealed_at = session.revealed_at])
            ELSE Respond([rec EXCEPT !.faulted = ~ok], 500, "session_fetch"))
     /\ UNCHANGED <<sessions, submissions, hints, solutions, scores, now, jar, started>>

\* fetchExistingSolution: a failed read yields null, the same as no row
fetchExistingSolution(rec) ==
  /\ rec.pc = "r_fetch" /\ ~rec.got_existing
  /\ \E ok \in BOOLEAN :
       Put(rec,
         AfterFetch([rec EXCEPT !.got_existing = TRUE,
                                !.faulted = (rec.faulted \/ ~ok),
                                !.existing = IF ok THEN StoredSteps(rec.session_id)
                                             ELSE NoSteps]))
  /\ UNCHANGED <<sessions, submissions, hints, solutions, scores, now, jar, started>>

\* variant: the pattern of parseFinalFromSteps, which is not anchored
\* and does not look at the decimals
finalStepIsValid_unanchored(last) ==
  last.label \in FinalLabels /\ last.num # NoLit

\* /^final\s*answer\s*:\s*(-?\d+(?:\.\d+)?)$/i matches the whole step, and
\* the number has no decimal point or exactly two decimals
finalStepIsValid(last) ==
  LET m == /\ last.prefix = "" /\ last.label \in FinalLabels
           /\ last.num # NoLit /\ last.tail = ""
  IN IF ~m THEN FALSE
     ELSE IF last.num.decimals = 0 THEN TRUE
     ELSE IF last.num.decimals = 2 THEN TRUE
     ELSE FALSE

\* model.generateContent, JSON.parse, StepsSchema, finalStepIsValid: the
\* call throws, or its text fails one of the three checks, or it yields a
\* valid steps array
RevealGenerate(rec) ==
  LET called == [rec EXCEPT !.gen_calls = 1]
  IN /\ rec.pc = "r_generate"
     /\ \/ \E outcome \in {"throws", "badjson", "badschema"} :
            Put(rec,
              CASE outcome = "throws" ->
                     Respond([called EXCEPT !.faulted = TRUE], 500, "generation")
                [] outcome = "badjson" ->
                     Respond(called, 502, "Invalid JSON from model")
                [] OTHER -> Respond(called, 502, "AI JSON invalid"))
        \/ \E last \in FinalSteps :
            Put(rec,
              IF ~finalStepIsValid(last)
                THEN Respond([called EXCEPT !.last = last], 502,
                             "Final step is not in the required format")
              ELSE [called EXCEPT !.pc = "r_save", !.steps = rec.ordinal,
                                  !.last = last])
     /\ UNCHANGED <<sessions, submissions, hints, solutions, scores, now, jar, started>>

\* saveSolution after an attempt that returned nothing: the next attempt,
\* or the error when it was the last one
SaveRetry(rec) ==
  {[rec EXCEPT !.pc = "r_save"], Respond(rec, 500, "solution_save")}

\* faulty variant: a unique violation counts as a failed attempt
SaveOnDuplicate_propagate(rec) == Respond([rec EXCEPT !.hit_dup = TRUE], 500, "solution_save")

\* after a unique violation: go and select the existing row
SaveOnDuplicate(rec) == [rec EXCEPT !.pc = "r_refetch", !.hit_dup = TRUE]

\* saveSolution: the insert
saveSolution(rec) ==
  /\ rec.pc = "r_save"
  /\ \E ok \in BOOLEAN :
       IF ~ok
         THEN /\ Put(rec, Respond([rec EXCEPT !.faulted = TRUE], 500, "solution_save"))
              /\ UNCHANGED solutions
       ELSE IF SolutionIsDuplicate(rec.session_id)
         THEN /\ Put(rec, SaveOnDuplicate(rec))
              /\ UNCHANGED solutions
       ELSE /\ solutions' = Append(solutions,
                   [session_id |-> rec.session_id, steps |-> rec.steps])
            /\ Put(rec, [rec EXCEPT !.pc = "r_mark", !.saved = rec.steps,
                                    !.wrote_sol = TRUE])
  /\ UNCHANGED <<sessions, submissions, hints, scores, now, jar, started>>

\* saveSolution: the select after a unique violation; the existing row is
\* returned when it has steps, else the attempt counts as failed
saveSolutionRefetch(rec) ==
  /\ rec.pc = "r_refetch"
  /\ \E ok \in BOOLEAN :
       IF ok /\ StoredSteps(rec.session_id) # NoSteps
         THEN Put(rec, [rec EXCEPT !.pc = "r_mark", !.saved = StoredSteps(rec.session_id)])
       ELSE \E next \in SaveRetry([rec EXCEPT !.faulted = (rec.faulted \/ ~ok)]) :
              Put(rec, next)
  /\ UNCHANGED <<sessions, submissions, hints, solutions, scores, now, jar, started>>

\* markRevealedIfNeeded(session_id, !!session.revealed_at), then the 200
\* response with existing.steps or saved.steps.  The update has no
\* condition on the stored revealed_at; new Date() is the clock's value or
\* a later one.
markRevealedIfNeeded(rec) ==
  LET alreadyRevealed == rec.revealed_at # 0
      answered ==
        Respond([rec EXCEPT !.res_steps = IF rec.existing # NoSteps THEN rec.existing
                                          ELSE rec.saved],
                200, "none")
  IN /\ rec.pc = "r_mark"
     /\ IF alreadyRevealed
          THEN /\ Put(rec, answered)
               /\ UNCHANGED <<sessions, now>>
        ELSE \E ok \in BOOLEAN :
               IF ok
                 THEN \E t \in {now, now + 1} :
                        /\ now' = t
                        /\ sessions' = [sessions EXCEPT ![rec.session_id].revealed_at = t]
                        /\ Put(rec, [answered EXCEPT !.wrote_revealed = TRUE])
               ELSE /\ Put(rec, Respond([rec EXCEPT !.faulted = TRUE], 500, "update"))
                    /\ UNCHANGED <<sessions, now>>
     /\ UNCHANGED <<submissions, hints, solutions, scores, jar, started>>

\* ---------------------------------------------------------- request-hint
\* POST /api/math-problem/hint

HintStart ==
  /\ \E sid \in SessionIds : Arrive("hint", "h_fetch", sid, 0, jar)
  /\ UNCHANGED <<sessions, submissions, hints, solutions, scores, now, jar, client, pure, page>>

\* faulty variant: the guard is off by one
MaxHintsReached_offbyone(existingCount) == existingCount > MaxHints

\* the guard on the number of stored hints
MaxHintsReached(existingCount) == existingCount >= MaxHints

\* Promise.all of the session, count and list selects, and the guards on
\* their results in the order of the code
HintFetch(rec) ==
  LET existingCount == HintCount(rec.session_id)
  IN /\ rec.pc = "h_fetch"
     /\ \E failed \in {"none", "session", "count", "list"} :
          Put(rec,
            LET seen == [rec EXCEPT !.faulted = (failed # "none")]
            IN IF failed = "session" \/ ~sessions[rec.session_id].exists
                 THEN Respond(seen, 404, "Session not found")
               ELSE IF failed = "count"
                 THEN Respond(seen, 500, "countResult")
               ELSE IF MaxHintsReached(existingCount)
                 THEN Respond([seen EXCEPT !.existingCount = existingCount],
                              429, "max_hints")
               ELSE IF failed = "list"
                 THEN Respond(seen, 500, "listResult")
               ELSE [seen EXCEPT !.pc = "h_generate", !.existingCount = existingCount])
     /\ UNCHANGED <<sessions, submissions, hints, solutions, scores, now, jar, started>>

\* retry(fn): the value of the attempt that succeeded, or the error thrown
\* after the last attempt, which the handler's catch answers with 500
retry(rec, ok, next, error) ==
  IF ok THEN next ELSE Respond([rec EXCEPT !.faulted = TRUE], 500, error)

\* retry(() => model.generateContent(prompt)); empty text is replaced by
\* the fixed hint
HintGenerate(rec) ==
  LET called == [rec EXCEPT !.gen_calls = 1]
  IN /\ rec.pc = "h_generate"
     /\ \E ok \in BOOLEAN :
          Put(rec, retry(called, ok, [called EXCEPT !.pc = "h_insert"], "generation"))
     /\ UNCHANGED <<sessions, submissions, hints, solutions, scores, now, jar, started>>

\* retry(insert hint)
HintInsert(rec) ==
  /\ rec.pc = "h_insert"
  /\ \E ok \in BOOLEAN :
       /\ hints' = IF ok THEN Append(hints, rec.session_id) ELSE hints
       /\ Put(rec,
            retry(rec, ok,
                  [rec EXCEPT !.pc = "h_score", !.wrote_hint = TRUE,
                              !.client_id = getOrCreateClientId(rec)],
                  "insert"))
  /\ UNCHANGED <<sessions, submissions, solutions, scores, now, jar, started>>

\* select the client's score row; a failed read yields null
HintReadScore(rec) ==
  /\ rec.pc = "h_score"
  /\ \E ok \in BOOLEAN :
       Put(rec,
         [rec EXCEPT !.pc = "h_upsert",
                     !.faulted = (rec.faulted \/ ~ok),
                     !.existingScore = IF ok THEN scores[rec.client_id] ELSE NoScore])
  /\ UNCHANGED <<sessions, submissions, hints, solutions, scores, now, jar, started>>

\* penalties[Math.min(nextIndex - 1, penalties.length - 1)]
Deduction(nextIndex) == penalties[Min(nextIndex, Len(penalties))]

\* faulty variant: points are not clamped at zero
NextScoreOnHint_noclamp(existingScore, deduction) ==
  [present |-> TRUE,
   total_attempts |-> ScoreField(existingScore, "total_attempts"),
   correct_count |-> ScoreField(existingScore, "correct_count"),
   current_streak |-> ScoreField(existingScore, "current_streak"),
   best_streak |-> ScoreField(existingScore, "best_streak"),
   points |-> ScoreField(existingScore, "points") - deduction]

\* faulty variant: a hint ends the current streak
NextScoreOnHint_streak(existingScore, deduction) ==
  [present |-> TRUE,
   total_attempts |-> ScoreField(existingScore, "total_attempts"),
   correct_count |-> ScoreField(existingScore, "correct_count"),
   current_streak |-> 0,
   best_streak |-> ScoreField(existingScore, "best_streak"),
   points |-> Max(0, ScoreField(existingScore, "points") - deduction)]

NextScoreOnHint(existingScore, deduction) ==
  [present |-> TRUE,
   total_attempts |-> ScoreField(existingScore, "total_attempts"),
   correct_count |-> ScoreField(existingScore, "correct_count"),
   current_streak |-> ScoreField(existingScore, "current_streak"),
   best_streak |-> ScoreField(existingScore, "best_streak"),
   points |-> Max(0, ScoreField(existingScore, "points") - deduction)]

\* retry(upsert score), and the 200 response
HintUpsertScore(rec) ==
  LET nextIndex == rec.existingCount + 1
      deduction == Deduction(nextIndex)
      next == NextScoreOnHint(rec.existingScore, deduction)
  IN /\ rec.pc = "h_upsert"
     /\ \E ok \in BOOLEAN :
          /\ scores' = IF ok THEN [scores EXCEPT ![rec.client_id] = next] ELSE scores
          /\ jar' = IF ok THEN JarAfter(rec) ELSE jar
          /\ Put(rec,
               retry(rec, ok,
                     Respond([rec EXCEPT !.wrote_score = TRUE, !.score = next,
                                !.hint_count = nextIndex,
                                !.deduction_applied = deduction,
                                !.set_cookie = (rec.cookie = NoCookie)],
                             200, "none"),
                     "upsert"))
     /\ UNCHANGED <<sessions, submissions, hints, solutions, now, started>>

\* ---------------------------------------------------------- retry wrappers
\* The retry loops of the routes, one attempt per step.  An error is the
\* pair of the attempt that raised it and its kind.
Wrappers ==
  {"fetchSession", "saveSolution", "fetchScoreWithRetry", "retry",
   "generateWithRetry", "generateFeedback"}

\* the wrappers whose attempts are raced against a timer by withTimeout
TimedWrappers == {"generateWithRetry", "generateFeedback"}

\* the loop bound of each wrapper
MaxRetriesOf(w) ==
  CASE w = "generateWithRetry" -> GEN_MAX_RETRIES
    [] w = "generateFeedback" -> FEEDBACK_MAX_RETRIES
    [] OTHER -> MAX_RETRIES

\* the kinds of error an attempt of the wrapper can end with
ErrorKinds(w) ==
  CASE w \in TimedWrappers -> {"RateLimited", "InvalidResponse"}
    [] w = "retry" -> {"RateLimited", "datastore"}
    [] OTHER -> {"datastore", "network"}

RECURSIVE Pow2(_)
Pow2(n) == IF n = 0 THEN 1 ELSE 2 * Pow2(n - 1)

\* The waits a wrapper can make after the failed attempt of index i that
\* it retries; the empty set when it starts the next attempt at once.
Delays(w, i) ==
  CASE w \in {"fetchSession", "saveSolution"} -> {RETRY_BASE_DELAY * (i + 1)}
    [] w = "fetchScoreWithRetry" -> {RETRY_DELAY_MS * (i + 1)}
    [] w = "retry" -> {RETRY_BASE_MS * Pow2(i) + jitter : jitter \in {0, RETRY_BASE_MS - 1}}
    [] OTHER -> {}

\* variant: lastErr keeps the first error
RecordError_first(lastErr, e) == IF lastErr = NoErr THEN e ELSE lastErr

\* lastErr = error
RecordError(lastErr, e) == e

\* i < MAX_RETRIES: another iteration follows the one of index i
LoopContinues(w, i) == i < MaxRetriesOf(w)

\* the body of the loop starts the call of attempt i + 1
StartAttempt(c) ==
  [c EXCEPT !.pc = "attempt", !.inflight = @ \cup {c.i + 1}]

\* after the loop: generateFeedback returns its fixed message, the other
\* wrappers throw lastErr
AfterLoop(c) ==
  IF c.wrapper = "generateFeedback"
    THEN [c EXCEPT !.pc = "returned", !.value = "fallback"]
  ELSE [c EXCEPT !.pc = "threw", !.thrown = c.lastErr]

\* the rest of an iteration whose attempt did not return
NextIteration(c) ==
  IF LoopContinues(c.wrapper, c.i)
    THEN IF Delays(c.wrapper, c.i) = {}
           THEN {StartAttempt([c EXCEPT !.i = @ + 1])}
         ELSE {[c EXCEPT !.pc = "sleep", !.waits = Append(@, d)] :
                 d \in Delays(c.wrapper, c.i)}
  ELSE {AfterLoop(c)}

\* the attempt has failed with an error of the kind
Failed(c, kind) ==
  [c EXCEPT !.lastErr = RecordError(@, [attempt |-> c.i + 1, kind |-> kind]),
            !.outcomes = Append(@, kind)]

\* a route calls the wrapper, which starts its first attempt
RetryCall ==
  /\ call.pc = "idle"
  /\ \E w \in Wrappers :
       call' = StartAttempt([NoCall EXCEPT !.wrapper = w])
  /\ UNCHANGED <<handlers, entry, gen, client, pure, page>>

\* the call of the attempt settles without error: the wrapper returns
AttemptReturns ==
  /\ call.pc = "attempt"
  /\ call' = [call EXCEPT !.pc = "returned", !.value = "data",
                          !.outcomes = Append(@, "ok"),
                          !.inflight = @ \ {call.i + 1}]
  /\ UNCHANGED <<handlers, entry, gen, client, pure, page>>

\* generateFeedback: the call settles with empty text; nothing is thrown
\* and the loop goes on
AttemptEmpty ==
  /\ call.pc = "attempt" /\ call.wrapper = "generateFeedback"
  /\ call' \in NextIteration([call EXCEPT !.outcomes = Append(@, "empty"),
                                          !.inflight = @ \ {call.i + 1}])
  /\ UNCHANGED <<handlers, entry, gen, client, pure, page>>

\* the call of the attempt settles with an error
AttemptFails ==
  /\ call.pc = "attempt"
  /\ \E kind \in ErrorKinds(call.wrapper) :
       call' \in NextIteration(
                   Failed([call EXCEPT !.inflight = @ \ {call.i + 1}], kind))
  /\ UNCHANGED <<handlers, entry, gen, client, pure, page>>

\* saveSolution: the insert fails on the unique index and the session's
\* row is read back; with steps it is returned, else the loop goes on
SaveDuplicate ==
  /\ call.pc = "attempt" /\ call.wrapper = "saveSolution"
  /\ LET c == Failed([call EXCEPT !.inflight = @ \ {call.i + 1}], "23505")
     IN \E found \in BOOLEAN :
          IF found
            THEN call' = [c EXCEPT !.pc = "returned", !.value = "retry"]
          ELSE call' \in NextIteration(c)
  /\ UNCHANGED <<handlers, entry, gen, client, pure, page>>

\* withTimeout: the timer fires first; the attempt is rejected and the
\* call it raced is left running
AttemptTimesOut ==
  /\ call.pc = "attempt" /\ call.wrapper \in TimedWrappers
  /\ call' \in NextIteration(Failed(call, "timeout"))
  /\ UNCHANGED <<handlers, entry, gen, client, pure, page>>

\* the sleep ends and the next attempt starts
Wake ==
  /\ call.pc = "sleep"
  /\ call' = StartAttempt([call EXCEPT !.i = @ + 1])
  /\ UNCHANGED <<handlers, entry, gen, client, pure, page>>

\* a call that lost the race against its timer settles; nobody listens
Settle ==
  /\ \E k \in call.inflight :
       /\ call.pc = "attempt" => k # call.i + 1
       /\ call' = [call EXCEPT !.inflight = @ \ {k}]
  /\ UNCHANGED <<handlers, entry, gen, client, pure, page>>

\* ------------------------------------------------------ input validation
\* The first lines of the four POST handlers: the GOOGLE_API_KEY test,
\* req.json(), Body.parse and the catch block.
\* A request body: well-formed, a field of the wrong type, a value outside
\* the enum, a session_id that is not a uuid, a required field missing, or
\* text that is not JSON.
Bodies ==
  {"valid", "wrong_type", "bad_enum", "bad_uuid", "missing_field", "unparseable"}

\* the bodies that can be sent to the endpoint: only generate-problem has
\* enum fields, and all of its fields are optional and none is a uuid
BodiesOf(e) ==
  IF e = "generate-problem"
    THEN Bodies \ {"missing_field", "bad_uuid"}
  ELSE Bodies \ {"bad_enum"}

\* Body.parse throws a ZodError
SchemaFails(body) ==
  body \in {"wrong_type", "bad_enum", "bad_uuid", "missing_field"}

\* a request arrives at one of the routes
EntryArrive ==
  /\ entry.pc = "idle"
  /\ \E e \in {"generate-problem", "submit-answer", "request-hint",
                "reveal-solution"},
        apiKey \in BOOLEAN :
       \E body \in BodiesOf(e) :
         entry' = [NoEntry EXCEPT !.endpoint = e, !.apiKey = apiKey,
                                  !.body = body, !.pc = "e_key"]
  /\ UNCHANGED <<handlers, call, gen, client, pure, page>>

\* if (!apiKey) return 500
EntryCheckKey ==
  /\ entry.pc = "e_key"
  /\ entry' = IF entry.apiKey
                THEN [entry EXCEPT !.pc = "e_json"]
              ELSE [entry EXCEPT !.pc = "done", !.status = 500]
  /\ UNCHANGED <<handlers, call, gen, client, pure, page>>

\* await req.json(): a SyntaxError for text that is not JSON, which
\* generate-problem replaces by the empty object
EntryReadJson ==
  /\ entry.pc = "e_json"
  /\ entry' =
       IF entry.body = "unparseable"
         THEN IF entry.endpoint = "generate-problem"
                THEN [entry EXCEPT !.pc = "e_parse", !.body = "valid"]
              ELSE [entry EXCEPT !.pc = "e_catch", !.thrown = "SyntaxError"]
       ELSE [entry EXCEPT !.pc = "e_parse"]
  /\ UNCHANGED <<handlers, call, gen, client, pure, page>>

\* Body.parse(...)
EntryBodyParse ==
  /\ entry.pc = "e_parse"
  /\ entry' = IF SchemaFails(entry.body)
                THEN [entry EXCEPT !.pc = "e_catch", !.thrown = "ZodError"]
              ELSE [entry EXCEPT !.pc = "e_work"]
  /\ UNCHANGED <<handlers, call, gen, client, pure, page>>

\* the catch block: 400 for a ZodError in three routes, 500 otherwise
EntryCatch ==
  /\ entry.pc = "e_catch"
  /\ entry' =
       [entry EXCEPT !.pc = "done",
          !.status = IF entry.endpoint # "generate-problem"
                        /\ entry.thrown = "ZodError"
                       THEN 400 ELSE 500]
  /\ UNCHANGED <<handlers, call, gen, client, pure, page>>

\* the handler makes its first datastore or generation call
EntryWork ==
  /\ entry.pc = "e_work"
  /\ entry' = [entry EXCEPT !.pc = "working", !.touched = TRUE]
  /\ UNCHANGED <<handlers, call, gen, client, pure, page>>

\* -------------------------------------------------------- generate-problem
\* last steps of generated problems: those of FinalSteps, a number with
\* three decimals, digits too many for a double, and no number
GeneratedFinalSteps ==
  FinalSteps \cup
    { Step("", "Final answer:", Lit(1245, 3), ""),
      Step("", "Final answer:", Lit(Infinity, 0), ""),
      Step("", "Final answer:", NoLit, "") }

\* Number.isFinite
isFinite(n) == n # Infinity /\ n # null

\* variant: the final_answer field takes precedence
parseFinalFromSteps_fieldfirst(last, fallback) ==
  IF isFinite(fallback) THEN fallback
  ELSE IF last.label \in FinalLabels /\ last.num # NoLit /\ isFinite(last.num.value)
    THEN last.num.value
  ELSE null

\* the number after /final\s*answer\s*:\s*/i anywhere in the last step when
\* it is finite, else the fallback when it is finite, else null
parseFinalFromSteps(last, fallback) ==
  LET m == last.label \in FinalLabels /\ last.num # NoLit
  IN IF m /\ isFinite(last.num.value) THEN last.num.value
     ELSE IF isFinite(fallback) THEN fallback
     ELSE null

\* The numbers below 4 with a 5 in the third decimal for which n * 100,
\* computed in binary64, falls below the exact product (1.005 * 100 is
\* 100.49999999999999); for the others it is the exact half or falls
\* above it (1.245 * 100 is 124.50000000000001).
ProductBelowHalf ==
  {145, 285, 565, 575, 1005, 1015, 1025, 1035, 1255, 1265, 1275, 2135, 2155,
   2175, 2195, 2385, 2405, 2425, 2445}

\* Math.round(n * 100), in hundredths: Math.round takes an exact half and
\* what lies above it upwards, and what lies below it downwards
roundTimes100(n) ==
  IF n % 10 = 5 /\ n \in ProductBelowHalf THEN (n - 5) \div 10
  ELSE (n + 5) \div 10

formatFinalNumber_fixed(n) == Lit(roundTimes100(n) * 10, 2)

\* String(n) for an integer, else Math.round(n * 100) / 100 with two
\* decimals
formatFinalNumber(n) ==
  IF n % 1000 = 0 THEN Lit(n, 0)
  ELSE Lit(roundTimes100(n) * 10, 2)

\* formatFinalNumber(parsedAnswer)
FormatApply ==
  /\ pure.pc = "number"
  /\ pure' = [pure EXCEPT !.pc = "formatted",
                          !.formatted = formatFinalNumber(pure.n)]
  /\ UNCHANGED <<handlers, call, entry, gen, client, page>>

\* variant: a last step that starts with the label is stored as it is
RepairedLast_keep(last, formatted) ==
  IF last.prefix = "" /\ last.label \in FinalLabels
    THEN last
  ELSE Step("", "Final answer:", formatted, "")

\* the steps array stays as it is when its last step starts with the label
\* and ends with the formatted number; else the last step is replaced (when
\* it starts with the label) or a step is added
RepairedCount(nsteps, last) ==
  IF last.prefix = "" /\ last.label \in FinalLabels THEN nsteps ELSE nsteps + 1

RepairedLast(last, formatted) ==
  IF /\ last.prefix = "" /\ last.label \in FinalLabels
     /\ last.num = formatted /\ last.tail = ""
    THEN last
  ELSE Step("", "Final answer:", formatted, "")

\* NextResponse.json(...) of generate-problem
GenRespond(g, status, error) ==
  [g EXCEPT !.pc = "done", !.status = status, !.error = error]

\* What the body of a generate-problem response carries besides a fixed
\* text of the route: the raw generated text (the raw member of the 502
\* 'AI JSON invalid' body), the message of a datastore error, or the
\* message of an exception caught at the end of the handler.
GenBodyCarries(g) ==
  IF g.status = 502 /\ g.error = "AI JSON invalid" THEN "raw"
  ELSE IF g.status = 500 /\ g.error \in {"insertErr", "solErr"} THEN "datastore"
  ELSE IF g.status = 500 THEN "exception"
  ELSE "fixed"

\* a validated generate-problem request arrives
GenArrive ==
  /\ gen.pc = "idle"
  /\ gen' = [NoGen EXCEPT !.pc = "g_generate"]
  /\ UNCHANGED <<handlers, call, entry, client, pure, page>>

\* generateWithRetry, JSON.parse, Output.safeParse, parseFinalFromSteps and
\* the repair of the last step
GenGenerate ==
  /\ gen.pc = "g_generate"
  /\ \/ gen' = GenRespond(gen, 500, "generation")
     \/ gen' = GenRespond(gen, 500, "SyntaxError")
     \/ gen' = GenRespond(gen, 502, "AI JSON invalid")
     \/ \E nsteps \in {2, 3, 15, 16}, last \in GeneratedFinalSteps,
           fieldAnswer \in {15000, 20000, Infinity} :
          LET g == [gen EXCEPT !.nsteps = nsteps, !.last = last,
                               !.final_answer = fieldAnswer]
              parsedAnswer == parseFinalFromSteps(last, fieldAnswer)
              formatted == formatFinalNumber(parsedAnswer)
          IN gen' =
               IF nsteps < 3 \/ nsteps > 15
                 THEN GenRespond(g, 502, "AI JSON invalid")
               ELSE IF ~isFinite(parsedAnswer)
                 THEN GenRespond(g, 502, "Final answer missing or invalid in steps")
               ELSE [g EXCEPT !.pc = "g_session",
                              !.parsedAnswer = parsedAnswer,
                              !.formatted = formatted,
                              !.steps_n = RepairedCount(nsteps, last),
                              !.steps_last = RepairedLast(last, formatted)]
  /\ UNCHANGED <<handlers, call, entry, client, pure, page>>

\* insert into math_problem_sessions with correct_answer = Number(formatted)
GenInsertSession ==
  /\ gen.pc = "g_session"
  /\ \E ok \in BOOLEAN :
       gen' = IF ok
                THEN [gen EXCEPT !.pc = "g_solution",
                        !.sessionRow = [present |-> TRUE,
                                        correct_answer |-> gen.formatted.value]]
              ELSE GenRespond(gen, 500, "insertErr")
  /\ UNCHANGED <<handlers, call, entry, client, pure, page>>

\* insert into math_problem_solutions, then the 200 response
GenInsertSolution ==
  /\ gen.pc = "g_solution"
  /\ \E ok \in BOOLEAN :
       gen' = IF ok
                THEN GenRespond(
                       [gen EXCEPT !.solutionRow =
                          [present |-> TRUE, nsteps |-> gen.steps_n,
                           last |-> gen.steps_last]],
                       200, "none")
              ELSE GenRespond(gen, 500, "solErr")
  /\ UNCHANGED <<handlers, call, entry, client, pure, page>>

\* --------------------------------------------------------- fetchWithRetry
\* The page sends the request of one user action on the current problem
\* "s1" and sends it again, after a pause, when fetch rejects or the
\* status is 500 or above.

\* requestHint or submitAnswer calls fetchWithRetry, which sends the request
ClientAct ==
  /\ client.pc = "idle"
  /\ \E kind \in {"hint", "submit"}, ans \in Answers :
       /\ IF kind = "hint"
            THEN Arrive("hint", "h_fetch", "s1", 0, jar)
          ELSE Arrive("submit", "s_session", "s1", ans, jar)
       /\ client' = [NoClient EXCEPT !.pc = "waiting", !.kind = kind,
                       !.user_answer = IF kind = "hint" THEN 0 ELSE ans,
                       !.sent = started + 1,
                       !.hints_before = Len(hints),
                       !.subs_before = Len(submissions),
                       !.scores_before = scores]
  /\ UNCHANGED <<sessions, submissions, hints, solutions, scores, now, jar, pure, page>>

\* The request sent last has been answered.  fetch resolves with the
\* response, or rejects because the connection failed on the way back.
ClientReceive ==
  /\ client.pc = "waiting" /\ resp.ordinal = client.sent
  /\ \E rejected \in BOOLEAN :
       client' =
         IF rejected \/ resp.status >= 500
           THEN IF client.attempt = retries
                  THEN [client EXCEPT !.pc = "threw"]
                ELSE [client EXCEPT !.pc = "backoff", !.attempt = @ + 1]
         ELSE [client EXCEPT !.pc = "returned"]
  /\ UNCHANGED <<handlers, call, entry, gen, pure, page>>

\* the pause is over: the same request is sent again
ClientResend ==
  /\ client.pc = "backoff"
  /\ IF client.kind = "hint"
       THEN Arrive("hint", "h_fetch", "s1", 0, jar)
     ELSE Arrive("submit", "s_session", "s1", client.user_answer, jar)
  /\ client' = [client EXCEPT !.pc = "waiting", !.sent = started + 1]
  /\ UNCHANGED <<sessions, submissions, hints, solutions, scores, now, jar, pure, page>>

\* ------------------------------------------------------ extractJsonSnippet
\* A generated text is a sequence of tokens: the brackets, "fence_json" for
\* three backticks followed by json, "fence" for three backticks alone, and
\* "x" for any other text.
Texts ==
  UNION {[1..len -> {"{", "}", "[", "]", "fence_json", "fence", "x"}] :
           len \in 0..MaxLen}

\* the close of each opening bracket
CloseOf == [open \in {"{", "["} |-> IF open = "{" THEN "}" ELSE "]"]

\* index of the first token of toks at or after from, 0 when there is none
RECURSIVE indexOf(_, _, _)
indexOf(text, toks, from) ==
  IF from > Len(text) THEN 0
  ELSE IF text[from] \in toks THEN from
  ELSE indexOf(text, toks, from + 1)

\* index of the last token of toks at or after from, 0 when there is none
RECURSIVE lastIndexOf(_, _, _)
lastIndexOf(text, toks, from) ==
  LET i == indexOf(text, toks, from)
  IN IF i = 0 THEN 0
     ELSE LET later == lastIndexOf(text, toks, i + 1)
          IN IF later = 0 THEN i ELSE later

\* text.match of the fenced pattern, a json fence, a lazy group and a
\* fence: the leftmost json fence that some fence follows, and the group
\* up to the next fence (a json fence begins with a fence)
matchFenced(text) ==
  LET open == indexOf(text, {"fence_json"}, 1)
      close == IF open = 0 THEN 0
               ELSE indexOf(text, {"fence", "fence_json"}, open + 1)
  IN IF close = 0 THEN [matched |-> FALSE, group |-> << >>]
     ELSE [matched |-> TRUE, group |-> SubSeq(text, open + 1, close - 1)]

\* text.match of an alternation of greedy bracket patterns, tried at each
\* position from the left: the first position where an opening bracket of
\* opens stands with its closing bracket somewhere after it, up to the LAST
\* such closing bracket
RECURSIVE matchBraces(_, _, _)
matchBraces(text, opens, at) ==
  IF at > Len(text) THEN [matched |-> FALSE, span |-> << >>]
  ELSE LET last == IF text[at] \in opens
                     THEN lastIndexOf(text, {CloseOf[text[at]]}, at + 1)
                   ELSE 0
       IN IF last # 0 THEN [matched |-> TRUE, span |-> SubSeq(text, at, last)]
          ELSE matchBraces(text, opens, at + 1)

extractJsonSnippet_bracesfirst(text) ==
  LET braces == matchBraces(text, {"{"}, 1)
      fenced == matchFenced(text)
  IN IF braces.matched THEN braces.span
     ELSE IF fenced.matched /\ fenced.group # << >> THEN fenced.group
     ELSE text

\* extractJsonSnippet of generate-problem: /\{[\s\S]*\}/
extractJsonSnippet(text) ==
  LET fenced == matchFenced(text)
      braces == matchBraces(text, {"{"}, 1)
  IN IF fenced.matched /\ fenced.group # << >> THEN fenced.group
     ELSE IF braces.matched THEN braces.span
     ELSE text

\* extractJsonSnippet of reveal-solution: /\{[\s\S]*\}|\[[\s\S]*\]/
extractJsonSnippet_reveal(text) ==
  LET fenced == matchFenced(text)
      braces == matchBraces(text, {"{", "["}, 1)
  IN IF fenced.matched /\ fenced.group # << >> THEN fenced.group
     ELSE IF braces.matched THEN braces.span
     ELSE text

\* sanitizeToStrictJson calls extractJsonSnippet on the generated text
ExtractApply ==
  /\ pure.pc = "text"
  /\ pure' = [pure EXCEPT !.pc = "extracted",
                          !.snippet = extractJsonSnippet(pure.text),
                          !.snippet_reveal = extractJsonSnippet_reveal(pure.text)]
  /\ UNCHANGED <<handlers, call, entry, gen, client, page>>

\* ------------------------------------------------------------- GET score
\* GET /api/score

\* the browser of the model, a browser without cookie, or a browser that
\* holds the id 0, asks for its score
ScoreStart ==
  /\ \E cookie \in {jar, NoCookie, 0} : Arrive("score", "sc_fetch", "s0", 0, cookie)
  /\ UNCHANGED <<sessions, submissions, hints, solutions, scores, now, jar, client, pure, page>>

ScoreBody_zeros(data) == [data EXCEPT !.present = TRUE]

\* the score member of the 200 body: null when the select found no row,
\* else the fields of the row
ScoreBody(data) == IF ~data.present THEN NoScore ELSE data

\* Without cookie the handler answers {score: null} at once; else
\* fetchScoreWithRetry selects the row of the cookie's id, and the handler
\* answers with it, or 500 when the select failed three times.
ScoreFetch(rec) ==
  /\ rec.pc = "sc_fetch"
  /\ IF rec.cookie = NoCookie
       THEN Put(rec, Respond([rec EXCEPT !.score = NoScore], 200, "none"))
     ELSE \E ok \in BOOLEAN :
            LET data == scores[rec.cookie]
                read == [rec EXCEPT !.client_id = rec.cookie,
                                    !.existingScore = data]
            IN Put(rec, retry(rec, ok,
                              Respond([read EXCEPT !.score = ScoreBody(data)],
                                      200, "none"),
                              "score_fetch_failed"))
  /\ UNCHANGED <<sessions, submissions, hints, solutions, scores, now, jar, started>>

\* ----------------------------------------------------------------- Home
\* The page: generateProblem, submitAnswer and handleSolutionRevealed of
\* Home, and revealSteps and canSubmit of ProblemDisplay.  Each handler
\* runs up to its fetch in one step and from the response in another.
\* ProblemDisplay is rendered when there is a problem and none is being
\* generated.

Mounted(p) == p.sessionId # 0 /\ ~p.isLoadingSettingsPanel

\* canSubmit of ProblemDisplay, with isDisabled = isSubmitDisabled
canSubmit(p) == p.userAnswer /\ ~p.isLoadingSubmit /\ p.isSubmitDisabled # "true"

\* canReveal of ProblemDisplay
canReveal(p) == p.sessionId # 0 /\ ~p.isStepsLoading /\ ~p.showSteps

AfterGenerate_reenable(p, ok) ==
  IF ok
    THEN [p EXCEPT !.isLoadingSettingsPanel = FALSE, !.isSubmitDisabled = "false",
                   !.sessionId = @ + 1]
  ELSE [p EXCEPT !.isLoadingSettingsPanel = FALSE, !.isSubmitDisabled = "false",
                 !.isCorrect = "false"]

\* generateProblem from the response on: a new session and submission
\* enabled, or the message of the failure
AfterGenerate(p, ok) ==
  IF ok
    THEN [p EXCEPT !.isLoadingSettingsPanel = FALSE, !.isSubmitDisabled = "false",
                   !.sessionId = @ + 1]
  ELSE [p EXCEPT !.isLoadingSettingsPanel = FALSE, !.isCorrect = "false"]

\* submitAnswer from the response on
AfterSubmit(p, outcome) ==
  LET q == [p EXCEPT !.isLoadingSubmit = FALSE, !.aborted = FALSE]
  IN IF outcome = "already_solved" THEN [q EXCEPT !.isCorrect = "true"]
     ELSE IF outcome = "solution_revealed" THEN [q EXCEPT !.isSubmitDisabled = "true"]
     ELSE IF outcome = "correct"
       THEN [q EXCEPT !.isCorrect = "true", !.isSubmitDisabled = "true",
                      !.locked = @ \cup {p.sessionId}]
     ELSE [q EXCEPT !.isCorrect = "false"]

\* revealSteps from the response on, with handleSolutionRevealed
AfterReveal(p, ok) ==
  IF ok
    THEN [p EXCEPT !.isStepsLoading = FALSE, !.showSteps = TRUE,
                   !.isSubmitDisabled = "true", !.locked = @ \cup {p.sessionId}]
  ELSE [p EXCEPT !.isStepsLoading = FALSE]

\* 'Generate New Problem': abortAll, the resets, and the request; the
\* skeleton replaces ProblemDisplay, whose unmounting aborts its request
PageGenerateClick ==
  /\ ~page.isLoadingSettingsPanel /\ page.sessionId < MaxProblems
  /\ page' = [page EXCEPT !.isLoadingSettingsPanel = TRUE, !.isCorrect = "null",
                          !.userAnswer = FALSE, !.aborted = page.isLoadingSubmit,
                          !.isStepsLoading = FALSE, !.showSteps = FALSE]
  /\ UNCHANGED <<handlers, call, entry, gen, client, pure>>

PageGenerateDone ==
  /\ page.isLoadingSettingsPanel
  /\ \E ok \in BOOLEAN : page' = AfterGenerate(page, ok)
  /\ UNCHANGED <<handlers, call, entry, gen, client, pure>>

\* the user fills or clears the answer field, which is disabled with
\* isDisabled
PageType ==
  /\ Mounted(page) /\ page.isSubmitDisabled # "true"
  /\ \E filled \in BOOLEAN : page' = [page EXCEPT !.userAnswer = filled]
  /\ UNCHANGED <<handlers, call, entry, gen, client, pure>>

\* the form is submitted and submitAnswer sends the request; when isCorrect
\* is true it only shows the modal
PageSubmitClick ==
  /\ Mounted(page) /\ canSubmit(page) /\ page.isCorrect # "true"
  /\ page' = [page EXCEPT !.isLoadingSubmit = TRUE, !.isCorrect = "null"]
  /\ UNCHANGED <<handlers, call, entry, gen, client, pure>>

\* the response of submit-answer; an aborted request ends in the catch
PageSubmitDone ==
  /\ page.isLoadingSubmit
  /\ \E outcome \in IF page.aborted THEN {"error"}
                   ELSE {"correct", "incorrect", "already_solved",
                         "solution_revealed", "error"} :
       page' = AfterSubmit(page, outcome)
  /\ UNCHANGED <<handlers, call, entry, gen, client, pure>>

PageRevealClick ==
  /\ Mounted(page) /\ canReveal(page)
  /\ page' = [page EXCEPT !.isStepsLoading = TRUE]
  /\ UNCHANGED <<handlers, call, entry, gen, client, pure>>

PageRevealDone ==
  /\ page.isStepsLoading
  /\ \E ok \in BOOLEAN : page' = AfterReveal(page, ok)
  /\ UNCHANGED <<handlers, call, entry, gen, client, pure>>

\* -------------------------------------------------------- specifications
\* a step of a submit-answer request in flight
SubmitStep ==
  \/ \E rec \in req : SubmitFetchSession(rec)
  \/ \E rec \in req : SubmitCheckSolved(rec)
  \/ \E rec \in req : SubmitReadScore(rec)
  \/ \E rec \in req : SubmitInsert(rec)
  \/ \E rec \in req : SubmitUpsertScore(rec)

\* a step of a reveal-solution request in flight
RevealStep ==
  \/ \E rec \in req : fetchSession(rec)
  \/ \E rec \in req : fetchExistingSolution(rec)
  \/ \E rec \in req : RevealGenerate(rec)
  \/ \E rec \in req : saveSolution(rec)
  \/ \E rec \in req : saveSolutionRefetch(rec)
  \/ \E rec \in req : markRevealedIfNeeded(rec)

\* a step of a request-hint request in flight
HintStep ==
  \/ \E rec \in req : HintFetch(rec)
  \/ \E rec \in req : HintGenerate(rec)
  \/ \E rec \in req : HintInsert(rec)
  \/ \E rec \in req : HintReadScore(rec)
  \/ \E rec \in req : HintUpsertScore(rec)

\* a step of a GET score request in flight
ScoreStep == \E rec \in req : ScoreFetch(rec)

\* submit-answer requests
NextSubmit == SubmitStart \/ SubmitStep

SpecSubmit == InitSubmit /\ [][NextSubmit]_vars

\* submit-answer and reveal-solution requests
NextSubmitReveal == SubmitStart \/ SubmitStep \/ RevealStart \/ RevealStep

SpecSubmitReveal == InitSubmitReveal /\ [][NextSubmitReveal]_vars

\* reveal-solution requests
NextReveal == RevealStart \/ RevealStep

SpecReveal == InitReveal /\ [][NextReveal]_vars

\* submit-answer and request-hint requests
NextSubmitHint == SubmitStart \/ SubmitStep \/ HintStart \/ HintStep

SpecSubmitHint == InitSubmitHint /\ [][NextSubmitHint]_vars

\* request-hint requests
NextHint == HintStart \/ HintStep

SpecHint == InitHint /\ [][NextHint]_vars

\* GET score requests beside submit-answer requests
NextScore == ScoreStart \/ ScoreStep \/ SubmitStart \/ SubmitStep

SpecScore == InitSubmit /\ [][NextScore]_vars

\* the page in one browser
InitPage ==
  InitTables /\ InitUnsolved /\ InitFresh /\ InitWithSolution /\ hints = << >>

NextPage ==
  \/ PageGenerateClick
  \/ PageGenerateDone
  \/ PageType
  \/ PageSubmitClick
  \/ PageSubmitDone
  \/ PageRevealClick
  \/ PageRevealDone

SpecPage == InitPage /\ [][NextPage]_vars

\* one call of a retry wrapper
InitRetry ==
  InitTables /\ InitUnsolved /\ InitFresh /\ InitWithSolution /\ hints = << >>

NextRetry ==
  \/ RetryCall
  \/ AttemptReturns
  \/ AttemptEmpty
  \/ AttemptFails
  \/ SaveDuplicate
  \/ AttemptTimesOut
  \/ Wake
  \/ Settle

SpecRetry == InitRetry /\ [][NextRetry]_vars

\* one request at the entry of its route
InitEntry ==
  InitTables /\ InitUnsolved /\ InitFresh /\ InitWithSolution /\ hints = << >>

NextEntry ==
  \/ EntryArrive
  \/ EntryCheckKey
  \/ EntryReadJson
  \/ EntryBodyParse
  \/ EntryCatch
  \/ EntryWork

SpecEntry == InitEntry /\ [][NextEntry]_vars

\* one generate-problem request
InitGenerate ==
  InitTables /\ InitUnsolved /\ InitFresh /\ InitWithSolution /\ hints = << >>

NextGenerate ==
  \/ GenArrive
  \/ GenGenerate
  \/ GenInsertSession
  \/ GenInsertSolution

SpecGenerate == InitGenerate /\ [][NextGenerate]_vars

\* one user action of the page, with the hint and submit handlers
InitClient ==
  /\ InitTables /\ InitUnsolved /\ InitWithSolution /\ hints = << >>
  /\ InitFresh \/ InitReturning

NextClient ==
  \/ ClientAct
  \/ ClientReceive
  \/ ClientResend
  \/ HintStep
  \/ SubmitStep

SpecClient == InitClient /\ [][NextClient]_vars

\* extractJsonSnippet applied to one generated text
InitExtract ==
  /\ InitStore /\ InitUnsolved /\ InitFresh /\ InitWithSolution /\ hints = << >>
  /\ \E text \in Texts : pure = [NoPure EXCEPT !.pc = "text", !.text = text]

NextExtract == ExtractApply

SpecExtract == InitExtract /\ [][NextExtract]_vars

\* formatFinalNumber applied to one number
\* ------------------------------------------------------------ GET history
\* searchParams.get('limit'): absent, or the text of the parameter.  A text
\* is a numeral (its value in thousandths), the empty text, a word, or one
\* of the two infinities.
\* Number(raw ?? DEFAULT_LIMIT) converts the empty text to 0 and a word to
\* NaN (written null, which isFinite rejects); Math.trunc drops the fraction,
\* towards zero.
clampLimit(raw) ==
  LET n == CASE raw.kind = "absent" -> DEFAULT_LIMIT * 1000
             [] raw.kind = "empty" -> 0
             [] raw.kind = "word" -> null
             [] raw.kind = "Infinity" -> Infinity
             [] raw.kind = "-Infinity" -> 0 - Infinity
             [] OTHER -> raw.value
      trunc == IF n >= 0 THEN (n \div 1000) * 1000
               ELSE 0 - (((0 - n) \div 1000) * 1000)
  IN IF ~isFinite(n) \/ n <= 0 THEN DEFAULT_LIMIT * 1000
     ELSE Min(trunc, MAX_LIMIT * 1000)

\* GET history up to the query: .limit(clampLimit(searchParams.get('limit')))
HistoryQuery ==
  /\ pure.pc = "raw"
  /\ pure' = [pure EXCEPT !.pc = "queried", !.limit = clampLimit(pure.raw)]
  /\ UNCHANGED <<handlers, call, entry, gen, client, page>>

InitHistory ==
  /\ InitStore /\ InitUnsolved /\ InitFresh /\ InitWithSolution /\ hints = << >>
  /\ \E raw \in
         {[kind |-> k, value |-> 0] :
            k \in {"absent", "empty", "word", "Infinity", "-Infinity"}}
           \cup {[kind |-> "numeral", value |-> q * 250] :
                    q \in (0 - 4)..((MAX_LIMIT + MaxOver) * 4)} :
       pure = [NoPure EXCEPT !.pc = "raw", !.raw = raw]

NextHistory == HistoryQuery

SpecHistory == InitHistory /\ [][NextHistory]_vars

\* the numbers formatted: those below MaxNumber to three decimals, and 12.5
InitFormat ==
  /\ InitStore /\ InitUnsolved /\ InitFresh /\ InitWithSolution /\ hints = << >>
  /\ \E n \in 0..(MaxNumber * 1000 - 1) \cup {12500} : pure = [NoPure EXCEPT !.pc = "number", !.n = n]

NextFormat == FormatApply

SpecFormat == InitFormat /\ [][NextFormat]_vars

\* ---------------------------------------------------------------- claims
\* the requests in flight and the request answered last
Requests == req \cup {resp}

Answered(rec) == rec.pc = "done"

\* C1: a submit-answer request that arrives when its session already has a
\* correct Submission never gets past the solved guard: it makes no
\* feedback call, inserts no Submission and writes no Score Summary; and
\* when its two reads succeed and the session it read is not revealed, it
\* is answered 409 'already_solved'.
C1_SolvedRejected ==
  \A rec \in Requests :
    rec.kind = "submit" /\ rec.solved_at_start =>
      /\ ~rec.wrote_sub /\ ~rec.wrote_score /\ rec.gen_calls = 0
      /\ rec.pc \in {"s_session", "s_solved", "done"}
      /\ Answered(rec) /\ ~rec.faulted /\ rec.revealed_at = 0 =>
            rec.status = 409 /\ rec.error = "already_solved"

\* an incorrect answer sent after the session was solved has been
\* rejected by the guard
C1_Witness ==
  /\ resp.kind = "submit" /\ resp.solved_at_start
  /\ resp.user_answer # CorrectAnswer
  /\ resp.status = 409 /\ resp.error = "already_solved"
  /\ Len(submissions) = 1

\* C2: a submit-answer request that arrives when its session's revealed_at
\* is set stops at the revealed guard: it inserts no Submission and writes
\* no Score Summary, and when its session read succeeds it is answered 409
\* 'solution_revealed', also when the session has a correct Submission.
C2_RevealedRejected ==
  \A rec \in Requests :
    rec.kind = "submit" /\ rec.revealed_at_start =>
      /\ ~rec.wrote_sub /\ ~rec.wrote_score /\ rec.gen_calls = 0
      /\ rec.pc \in {"s_session", "done"}
      /\ Answered(rec) /\ ~rec.faulted =>
            rec.status = 409 /\ rec.error = "solution_revealed"

\* a submit for a session that is both solved and revealed has been
\* answered 'solution_revealed'
C2_Witness ==
  /\ resp.kind = "submit" /\ resp.revealed_at_start /\ resp.solved_at_start
  /\ resp.status = 409 /\ resp.error = "solution_revealed"

\* C3: every session has at most one Submission with is_correct = true,
\* whatever the interleaving of the submit-answer requests.
C3_OneCorrectSubmission ==
  \A sid \in SessionIds : Cardinality(CorrectRows(sid)) <= 1

\* two correct submissions raced: the second passed the solved guard and
\* its insert met the unique index
C3_Witness ==
  /\ resp.kind = "submit" /\ resp.hit_dup /\ resp.is_correct
  /\ ~resp.solved_at_start
  /\ Cardinality(CorrectRows(resp.session_id)) = 1

\* C4 (does not hold): every session has at most MaxHints Hint rows,
\* whatever the interleaving of the request-hint requests.  Two requests
\* that both count four rows both insert.
C4_AtMostFiveHints ==
  \A sid \in SessionIds : HintCount(sid) <= MaxHints

\* C5: a request-hint request that arrives when its session has MaxHints
\* Hint rows (or more) stops at the max-hints guard: it makes no generation
\* call, inserts no Hint and writes no Score Summary, and when its reads
\* succeed it is answered 429 'max_hints'.
C5_MaxHintsRejected ==
  \A rec \in Requests :
    rec.kind = "hint" /\ rec.hints_at_start >= MaxHints =>
      /\ ~rec.wrote_hint /\ ~rec.wrote_score /\ rec.gen_calls = 0
      /\ rec.pc \in {"h_fetch", "done"}
      /\ Answered(rec) /\ ~rec.faulted =>
            rec.status = 429 /\ rec.error = "max_hints"

\* the request after the fifth hint has been rejected, and the session
\* has exactly five Hint rows
C5_Witness ==
  /\ resp.kind = "hint" /\ resp.hints_at_start = MaxHints
  /\ resp.status = 429 /\ resp.error = "max_hints"
  /\ HintCount(resp.session_id) = MaxHints

C7_ConcurrentReveal ==
  /\ \A sid \in SessionIds : Cardinality(SolutionRows(sid)) <= 1
  /\ \A rec \in Requests :
       rec.kind = "reveal" /\ Answered(rec) =>
         /\ rec.status = 200 => rec.res_steps = StoredSteps(rec.session_id)
         /\ rec.steps # NoSteps /\ ~rec.faulted => rec.status = 200

\* two reveals of a session without Solution raced: the one whose insert
\* met the unique index has returned the other's steps, not its own
C7_Witness ==
  /\ resp.kind = "reveal" /\ resp.hit_dup /\ resp.steps_at_start = NoSteps
  /\ resp.status = 200
  /\ resp.res_steps # resp.steps
  /\ resp.res_steps = StoredSteps(resp.session_id)
  /\ Cardinality(SolutionRows(resp.session_id)) = 1

\* C8 (does not hold): once a session's revealed_at is set no step changes
\* it.  Two reveals that both read the session with revealed_at null both
\* update it.
C8_RevealedAtWrittenOnce ==
  [][\A sid \in SessionIds :
       sessions[sid].revealed_at # 0 =>
         sessions'[sid].revealed_at = sessions[sid].revealed_at]_vars

C12_PointsNonNegative ==
  \A c \in ClientIds : scores[c].points >= 0

\* a client's third incorrect answer in a row has been accepted and its
\* points are still zero
C12_Witness ==
  /\ resp.kind = "submit" /\ resp.status = 200 /\ ~resp.is_correct
  /\ scores[resp.client_id].total_attempts = 3
  /\ scores[resp.client_id].correct_count = 0
  /\ scores[resp.client_id].points = 0

\* C13 as stated: a submit-answer request for a session that has a correct
\* Submission and has revealed_at set is rejected with 'already_solved'
\* (the solved guard first).
C13_SolvedBeforeRevealed ==
  \A rec \in Requests :
    /\ rec.kind = "submit" /\ rec.solved_at_start /\ rec.revealed_at_start
    /\ Answered(rec) /\ ~rec.faulted
    => rec.status = 409 /\ rec.error = "already_solved"

\* C13 amended: the submit guards are evaluated revealed-then-solved: a
\* submit-answer request for a session that has a correct Submission and
\* has revealed_at set never gets as far as the solved lookup, is never
\* answered 'already_solved', and when its session read succeeds it is
\* rejected with 'solution_revealed'.
C13_RevealedBeforeSolved ==
  \A rec \in Requests :
    rec.kind = "submit" /\ rec.solved_at_start /\ rec.revealed_at_start =>
      /\ rec.pc # "s_solved"
      /\ rec.error # "already_solved"
      /\ Answered(rec) /\ ~rec.faulted => rec.error = "solution_revealed"

\* the correct answer sent to a session that was solved and then revealed
\* has been turned away by the revealed guard
C13_Witness ==
  /\ resp.kind = "submit" /\ resp.solved_at_start /\ resp.revealed_at_start
  /\ resp.user_answer = CorrectAnswer /\ ~resp.faulted
  /\ resp.status = 409 /\ resp.error = "solution_revealed"
  /\ CorrectRows(resp.session_id) # {}
  /\ sessions[resp.session_id].revealed_at # 0

\* C14: every Submission row has is_correct = TRUE exactly when its
\* user_answer equals the correct_answer of its session, and the is_correct
\* of a 200 response of submit-answer is the is_correct of the row that the
\* request inserted.
C14_IsCorrectExact ==
  /\ \A i \in 1..Len(submissions) :
       submissions[i].is_correct
         <=> submissions[i].user_answer
               = sessions[submissions[i].session_id].correct_answer
  /\ \A rec \in Requests :
       rec.kind = "submit" /\ Answered(rec) /\ rec.status = 200 =>
         /\ rec.res_is_correct
              <=> rec.user_answer = sessions[rec.session_id].correct_answer
         /\ \E i \in 1..Len(submissions) :
              submissions[i] = [session_id |-> rec.session_id,
                                user_answer |-> rec.user_answer,
                                is_correct |-> rec.res_is_correct]

\* an answer one above the correct one has been stored and returned as
\* incorrect
C14_Witness ==
  /\ resp.kind = "submit" /\ resp.status = 200
  /\ resp.user_answer = CorrectAnswer + 1 /\ ~resp.res_is_correct
  /\ \E i \in 1..Len(submissions) :
       /\ submissions[i].user_answer = CorrectAnswer + 1
       /\ ~submissions[i].is_correct

\* C15: a call of fetchSession, saveSolution, fetchScoreWithRetry, the
\* hint route's retry or generateWithRetry makes at most 3 attempts, makes
\* no attempt after one that succeeded, and when its third attempt fails
\* it throws the error of that third attempt.
C15_RetryBounded ==
  call.wrapper \in Wrappers \ {"generateFeedback"} =>
    /\ call.i + 1 <= 3 /\ Len(call.outcomes) <= 3
    /\ \A j \in 1..(Len(call.outcomes) - 1) : call.outcomes[j] # "ok"
    /\ call.pc \in {"attempt", "sleep"} =>
         \A j \in 1..Len(call.outcomes) : call.outcomes[j] # "ok"
    /\ call.pc = "returned" =>
         call.outcomes[Len(call.outcomes)] \in {"ok", "23505"}
    /\ call.pc = "threw" =>
         /\ Len(call.outcomes) = 3
         /\ \A j \in 1..3 : call.outcomes[j] # "ok"
         /\ call.thrown = [attempt |-> 3, kind |-> call.outcomes[3]]

\* generateWithRetry has thrown the error of its third attempt after
\* three attempts that failed in three ways
C15_Witness ==
  /\ call.wrapper = "generateWithRetry" /\ call.pc = "threw"
  /\ call.outcomes = <<"RateLimited", "timeout", "InvalidResponse">>
  /\ call.thrown = [attempt |-> 3, kind |-> "InvalidResponse"]

\* C16: in every retry wrapper each failed attempt that is retried is
\* followed by a wait of baseDelay * attemptNumber, attemptNumber being the
\* 1-indexed number of the attempt that failed.
C16_LinearDelay ==
  LET baseDelay == CASE call.wrapper = "fetchScoreWithRetry" -> RETRY_DELAY_MS
                     [] call.wrapper = "retry" -> RETRY_BASE_MS
                     [] OTHER -> RETRY_BASE_DELAY
      retried == IF call.pc = "sleep" THEN call.i + 1 ELSE call.i
  IN call.wrapper \in Wrappers \ {"generateFeedback"} =>
       /\ Len(call.waits) = retried
       /\ \A j \in 1..Len(call.waits) : call.waits[j] = baseDelay * j

\* C17: the attempts of one retried operation never overlap: at most one
\* call started by the wrapper is in flight at any time, also after an
\* attempt was ended by its timer.
C17_OneInFlight == Cardinality(call.inflight) <= 1

\* C18: a request whose body fails the schema of its endpoint or is not
\* JSON is answered with a 400-class status, and no datastore or
\* generation call is made for it.
C18_BadBodyRejected ==
  /\ entry.apiKey
  /\ entry.body \in Bodies \ {"valid"} \/ entry.thrown # "none"
  => /\ ~entry.touched /\ entry.pc # "working"
     /\ entry.pc = "done" => entry.status \in 400..499

\* C19: when reveal-solution generates steps whose last step is not the
\* label 'Final answer:' (in any letter case and spacing) followed by a
\* number without decimals or with exactly two, and by nothing else, the
\* request is answered 502, stores no Solution row and does not set
\* revealed_at.
C19_BadFinalStepRejected ==
  \A rec \in Requests :
    /\ rec.kind = "reveal" /\ rec.last # NoStep
    /\ ~( /\ rec.last.prefix = "" /\ rec.last.tail = ""
          /\ rec.last.label \in {"Final answer:", "final  answer :"}
          /\ rec.last.num.decimals \in {0, 2} )
    => /\ Answered(rec) /\ rec.status = 502
       /\ ~rec.wrote_sol /\ ~rec.wrote_revealed /\ rec.saved = NoSteps

\* generated steps ending in 'Final answer: 15.5' were turned away and the
\* session has no Solution and is not revealed
C19_Witness ==
  /\ resp.kind = "reveal" /\ resp.status = 502
  /\ resp.last = Step("", "Final answer:", Lit(15500, 1), "")
  /\ SolutionRows(resp.session_id) = {}
  /\ sessions[resp.session_id].revealed_at = 0

\* C20 as stated: the stored correct_answer comes from the number of the
\* final step whenever that step contains a 'Final answer: <number>' match,
\* from the final_answer field only when it contains none, and a payload
\* where neither gives a finite number is rejected with nothing stored.
C20_StepMatchTakesPrecedence ==
  LET match == gen.last.label \in FinalLabels /\ gen.last.num # NoLit
      round2(v) == IF v % 1000 = 0 THEN v ELSE ((v + 5) \div 10) * 10
  IN /\ gen.sessionRow.present /\ match =>
          gen.sessionRow.correct_answer = round2(gen.last.num.value)
     /\ gen.sessionRow.present /\ ~match =>
          gen.sessionRow.correct_answer = round2(gen.final_answer)

\* C20 amended: the stored correct_answer comes from the number of the
\* final step whenever that step contains a 'Final answer: <number>' match
\* whose number is finite, also when final_answer differs; from the
\* final_answer field only when the final step has no match with a finite
\* number; and when neither gives a finite number the request is answered
\* 502 and inserts no Problem Session and no Solution.
C20_FiniteStepMatchTakesPrecedence ==
  LET match == /\ gen.last.label \in FinalLabels /\ gen.last.num # NoLit
               /\ gen.last.num.value # Infinity
      round2(v) == IF v % 1000 = 0 THEN v ELSE ((v + 5) \div 10) * 10
  IN /\ gen.sessionRow.present /\ match =>
          gen.sessionRow.correct_answer = round2(gen.last.num.value)
     /\ gen.sessionRow.present /\ ~match =>
          gen.sessionRow.correct_answer = round2(gen.final_answer)
     /\ gen.last # NoStep /\ ~match /\ gen.final_answer = Infinity =>
          /\ gen.pc = "done" /\ gen.status = 502
          /\ ~gen.sessionRow.present /\ ~gen.solutionRow.present

\* 'Final answer: 15 apples' with final_answer 20 has been stored as 15
C20_Witness ==
  /\ gen.pc = "done" /\ gen.status = 200
  /\ gen.last = Step("", "Final answer:", Lit(15000, 0), " apples")
  /\ gen.final_answer = 20000
  /\ gen.sessionRow = [present |-> TRUE, correct_answer |-> 15000]
  /\ gen.solutionRow.present

C22_StepCountInRange ==
  /\ gen.solutionRow.present => gen.solutionRow.nsteps \in 3..15
  /\ gen.last # NoStep /\ gen.nsteps \notin 3..15 =>
       /\ gen.pc = "done" /\ gen.status = 502
       /\ ~gen.sessionRow.present /\ ~gen.solutionRow.present

\* C23: when no feedback attempt of a submit-answer request returns text,
\* feedback_text is the fixed message for is_correct; the request then
\* ends only as a request with generated feedback can (200, the 409 of the
\* unique index, or the error of its insert or upsert), and when it is
\* answered 200 it has inserted its Submission and written the score that
\* its is_correct gives.
C23_FeedbackFallback ==
  \A rec \in Requests :
    rec.kind = "submit" /\ rec.feedback_text \notin {"none", "generated"} =>
      /\ rec.feedback_text = IF rec.is_correct THEN "Well done" ELSE "Keep trying"
      /\ rec.pc \in {"s_insert", "s_upsert", "done"}
      /\ Answered(rec) => rec.error \in {"none", "already_solved", "subErr", "scoreErr"}
      /\ Answered(rec) /\ rec.status = 200 =>
           /\ rec.wrote_sub /\ rec.wrote_score
           /\ rec.res_is_correct = rec.is_correct
           /\ rec.score.total_attempts
                = ScoreField(rec.existingScore, "total_attempts") + 1
           /\ rec.score.points
                = Max(0, ScoreField(rec.existingScore, "points")
                           + (IF rec.is_correct THEN 10 ELSE 0 - 2))

\* a wrong answer whose feedback attempts all failed has been stored and
\* scored with the message for wrong answers
C23_Witness ==
  /\ resp.kind = "submit" /\ resp.status = 200
  /\ ~resp.is_correct /\ resp.feedback_text = "Keep trying"
  /\ resp.wrote_sub /\ resp.wrote_score
  /\ Len(submissions) = 1 /\ ~submissions[1].is_correct

\* C24: in every state the Problem Session row that a generate-problem
\* request has inserted has its Solution row, and a request that was
\* answered with an error has left no Problem Session row.
C24_NoGhostSession ==
  /\ gen.sessionRow.present => gen.solutionRow.present
  /\ gen.pc = "done" /\ gen.status # 200 => ~gen.sessionRow.present

\* C25: one hint request or one submit request of the page, with the
\* re-sends of fetchWithRetry, adds at most one Hint row (one Submission
\* row), and the score counts at most one more attempt.
C25_ClientRetryIdempotent ==
  LET attempts[i \in (0 - 1)..MaxRequests] ==
        IF i < 0 THEN 0 ELSE attempts[i - 1] + scores[i].total_attempts
      before[i \in (0 - 1)..MaxRequests] ==
        IF i < 0 THEN 0
        ELSE before[i - 1] + client.scores_before[i].total_attempts
  IN client.pc # "idle" =>
       /\ client.kind = "hint" => Len(hints) <= client.hints_before + 1
       /\ client.kind = "submit" =>
            /\ Len(submissions) <= client.subs_before + 1
            /\ attempts[MaxRequests] <= before[MaxRequests] + 1

\* C26: when the sanitized generated text does not parse as JSON,
\* generate-problem answers with the 502 content-invalid failure, and no
\* Problem Session and no Solution is stored.
C26_UnparsableIs502 ==
  gen.pc = "done" /\ gen.error = "SyntaxError" =>
    /\ gen.status = 502
    /\ ~gen.sessionRow.present
    /\ ~gen.solutionRow.present

\* C27: no generate-problem response carries the raw generated text, the
\* message of a datastore error or the message of an internal exception:
\* a failure response carries a fixed text only.
C27_NoInternalDetail ==
  gen.pc = "done" => GenBodyCarries(gen) = "fixed"

\* the json fences of text t that some fence follows
FencedBlocks(t) ==
  {i \in 1..Len(t) :
     t[i] = "fence_json" /\ \E j \in (i + 1)..Len(t) : t[j] \in {"fence", "fence_json"}}

\* what stands between the first json fence and the next fence
FirstBlock(t) ==
  LET i == CHOOSE b \in FencedBlocks(t) : \A c \in FencedBlocks(t) : b <= c
      j == CHOOSE e \in (i + 1)..Len(t) :
             /\ t[e] \in {"fence", "fence_json"}
             /\ \A k \in (i + 1)..(e - 1) : t[k] \notin {"fence", "fence_json"}
  IN SubSeq(t, i + 1, j - 1)

\* the span of t from i to j is balanced: j closes the bracket opened at i
Balanced(t, i, j) ==
  LET opened(k) == Cardinality({m \in i..k : t[m] = t[i]})
      closed(k) == Cardinality({m \in i..k : t[m] = t[j]})
  IN /\ i < j /\ t[i] \in {"{", "["} /\ t[j] = CloseOf[t[i]]
     /\ opened(j) = closed(j)
     /\ \A k \in i..(j - 1) : opened(k) > closed(k)

\* the first balanced span of t, where there is one
FirstBalanced(t) ==
  LET starts == {i \in 1..Len(t) : \E j \in 1..Len(t) : Balanced(t, i, j)}
      i == CHOOSE s \in starts : \A r \in starts : s <= r
      j == CHOOSE e \in 1..Len(t) : Balanced(t, i, e)
  IN IF starts = {} THEN << >> ELSE SubSeq(t, i, j)

\* the span of t from the first bracket of opens that its closing bracket
\* follows to the last such closing bracket, where there is one
GreedySpan(t, opens) ==
  LET starts == {i \in 1..Len(t) :
                   t[i] \in opens /\ \E j \in (i + 1)..Len(t) : t[j] = CloseOf[t[i]]}
      i == CHOOSE s \in starts : \A r \in starts : s <= r
      j == CHOOSE e \in (i + 1)..Len(t) :
             /\ t[e] = CloseOf[t[i]]
             /\ \A k \in (e + 1)..Len(t) : t[k] # CloseOf[t[i]]
  IN IF starts = {} THEN << >> ELSE SubSeq(t, i, j)

\* C28 as stated: the candidate is the content of the first fenced json
\* block; else the first balanced {...} or [...] span found by bracket
\* matching, without the text after the matching close; else the text
\* unchanged.
C28_BalancedSpan ==
  LET t == pure.text
      expected == IF FencedBlocks(t) # {} THEN FirstBlock(t)
                  ELSE IF FirstBalanced(t) # << >> THEN FirstBalanced(t)
                  ELSE t
  IN pure.pc = "extracted" =>
       pure.snippet = expected /\ pure.snippet_reveal = expected

\* C28, amended: the candidate is the content of the first fenced json
\* block when that is not empty; else the span from the first opening
\* brace that a closing brace follows to the LAST closing brace of the
\* text (in reveal-solution: from the first opening brace or square bracket
\* that its closing bracket follows to the last such closing bracket),
\* brackets not being matched; else the text unchanged.
C28_GreedySpan ==
  LET t == pure.text
      expected(opens) ==
        IF FencedBlocks(t) # {} /\ FirstBlock(t) # << >> THEN FirstBlock(t)
        ELSE IF GreedySpan(t, opens) # << >> THEN GreedySpan(t, opens)
        ELSE t
  IN pure.pc = "extracted" =>
       /\ pure.snippet = expected({"{"})
       /\ pure.snippet_reveal = expected({"{", "["})

\* a text whose first balanced span ends before its last closing brace
C28_Witness ==
  /\ pure.pc = "extracted"
  /\ pure.text = <<"x", "{", "}", "x", "}">>
  /\ pure.snippet = <<"{", "}", "x", "}">>
  /\ pure.snippet_reveal = <<"{", "}", "x", "}">>

C30_RoundsHalfUp ==
  pure.pc = "formatted" /\ pure.n % 1000 # 0 =>
    pure.formatted.value = ((pure.n + 5) \div 10) * 10

\* C31: a GET score request without cookie, or whose id has no Score
\* Summary, is answered 200 {score: null} (when its select succeeds); and
\* no GET score request writes a Score Summary or any other row, or sets a
\* cookie.
C31_ScoreReadOnly ==
  \A rec \in Requests :
    rec.kind = "score" =>
      /\ ~rec.wrote_score /\ ~rec.wrote_sub /\ ~rec.wrote_hint
      /\ ~rec.wrote_sol /\ ~rec.wrote_revealed /\ ~rec.set_cookie
      /\ Answered(rec) /\ ~rec.faulted =>
           /\ rec.status = 200
           /\ rec.cookie = NoCookie \/ ~rec.existingScore.present =>
                rec.score = NoScore

\* a request with a cookie whose id has no row was answered {score: null},
\* after a submission had stored the row of another id
C31_Witness ==
  /\ resp.kind = "score" /\ Answered(resp) /\ ~resp.faulted
  /\ resp.cookie = 0 /\ resp.score = NoScore
  /\ \E c \in ClientIds : scores[c].present

\* C32: in every interleaving of submit-answer and reveal-solution requests,
\* a Submission row is inserted only while revealed_at of its session is
\* not set.
C32_NoSubmissionAfterReveal ==
  [][Len(submissions') > Len(submissions) =>
       sessions[submissions'[Len(submissions')].session_id].revealed_at = 0]_vars

\* C33: a submit-answer request whose insert meets the unique index is
\* answered 409 'already_solved' and writes no Score Summary; and a request
\* that writes the Score Summary of a correct answer (+10 points,
\* correct_count + 1) is the one that inserted the one correct Submission
\* of its session, so that a session is awarded at most once.
C33_AwardedOnce ==
  \A rec \in Requests :
    /\ rec.hit_dup =>
         /\ Answered(rec) /\ rec.status = 409 /\ rec.error = "already_solved"
         /\ ~rec.wrote_sub /\ ~rec.wrote_score
    /\ rec.kind = "submit" /\ rec.wrote_score /\ rec.is_correct =>
         /\ rec.wrote_sub /\ rec.sub_is_correct /\ ~rec.hit_dup
         /\ Cardinality(CorrectRows(rec.session_id)) = 1

\* the request that lost the race was answered 409 after the winner had
\* been awarded its points
C33_Witness ==
  /\ resp.kind = "submit" /\ resp.hit_dup /\ resp.status = 409
  /\ ~resp.solved_at_start
  /\ \E c \in ClientIds : scores[c].correct_count = 1 /\ scores[c].points = POINTS_CORRECT

\* C34: no scoring event is lost.  The upsert of an accepted submit-answer
\* request, all of whose calls succeeded, leaves its client's stored
\* total_attempts one higher and correct_count one higher when the answer
\* is correct; the upsert of an accepted request-hint request leaves both
\* as stored and takes its deduction from the stored points.
C34_NoLostScoreEvent ==
  [][\A rec \in req :
       /\ rec.pc \in {"s_upsert", "h_upsert"} /\ ~rec.faulted
       /\ rec \notin req' /\ resp'.ordinal = rec.ordinal /\ resp'.status = 200
       => LET old == scores[rec.client_id]
              new == scores'[rec.client_id]
          IN IF rec.kind = "submit"
               THEN /\ new.total_attempts = old.total_attempts + 1
                    /\ new.correct_count =
                         old.correct_count + (IF rec.is_correct THEN 1 ELSE 0)
             ELSE /\ new.total_attempts = old.total_attempts
                  /\ new.correct_count = old.correct_count
                  /\ new.points =
                       Max(0, old.points - Deduction(rec.existingCount + 1))]_vars

\* C35: when a request-hint request inserts its Hint row, the hint_count
\* that it goes on to report (nextIndex = existingCount + 1) is the number
\* of Hint rows that its session has after the insert, so that the
\* deductions of a session follow the schedule 0, 2, 3, 4, 5 in order, also
\* when hint requests overlap.
C35_HintCountIsRowCount ==
  [][\A rec \in req :
       /\ rec.kind = "hint" /\ rec.pc = "h_insert"
       /\ rec \notin req' /\ Len(hints') > Len(hints)
       => rec.existingCount + 1 = HintCount(rec.session_id)']_vars

\* C36: every stored Score Summary has 0 <= correct_count <= total_attempts
\* and 0 <= current_streak <= best_streak <= correct_count, whatever the
\* interleaving of submit-answer and request-hint requests.
C36_ScoreSummaryConsistent ==
  \A c \in ClientIds :
    /\ 0 <= scores[c].correct_count
    /\ scores[c].correct_count <= scores[c].total_attempts
    /\ 0 <= scores[c].current_streak
    /\ scores[c].current_streak <= scores[c].best_streak
    /\ scores[c].best_streak <= scores[c].correct_count

\* a hint's upsert wrote the row of a client who has a streak, beside a
\* submission
C36_Witness ==
  /\ resp.kind = "hint" /\ resp.wrote_score
  /\ Len(submissions) >= 1
  /\ scores[resp.client_id].current_streak >= 1

\* C37: a submit-answer, request-hint or reveal-solution request for a
\* session_id that matches no Problem Session makes no generation call and
\* writes nothing, and when its reads succeed it is answered 404 'Session
\* not found'.
C37_MissingSessionIs404 ==
  \A rec \in Requests :
    rec.kind \in {"submit", "hint", "reveal"} /\ ~sessions[rec.session_id].exists =>
      /\ rec.gen_calls = 0
      /\ ~rec.wrote_sub /\ ~rec.wrote_score /\ ~rec.wrote_hint
      /\ ~rec.wrote_sol /\ ~rec.wrote_revealed
      /\ Answered(rec) /\ ~rec.faulted =>
           rec.status = 404 /\ rec.error = "Session not found"

C39_LimitInRange ==
  pure.pc = "queried" =>
    /\ pure.limit % 1000 = 0
    /\ (pure.limit \div 1000) \in 1..MAX_LIMIT
    /\ pure.limit =
         (IF pure.raw.kind # "numeral" \/ pure.raw.value <= 0
            THEN DEFAULT_LIMIT * 1000
          ELSE Min(pure.raw.value - (pure.raw.value % 1000), MAX_LIMIT * 1000))

====
